---- MODULE Spec2Model ----
(***************************************************************************)
(* Car Rental System (src/main.c): the record files of the program, the    *)
(* operations of its menus on them, and the session those menus run in.    *)
(*                                                                         *)
(* A file is a sequence of entries.  An entry is one record as fwrite put  *)
(* it there (a struct Users, a struct CarModel, a struct Rental), or a run *)
(* of bytes whose content the model does not follow ("Raw").  A scan with  *)
(* fread(.., sizeof(struct X), 1, file) reads windows of sizeof(struct X)  *)
(* bytes from offset 0: a window that is exactly one stored struct X is    *)
(* read back as that record, any other window as a record of unknown       *)
(* field values, and a short last window ends the scan.                    *)
(***************************************************************************)
EXTENDS Integers, Sequences, FiniteSets, TLC

VARIABLES
  fs,            \* path -> [exists, data]: the files of the working directory
  pc,            \* the menu the process is in, or how it ended
  loggedInUser,  \* main's struct Users loggedInUser, as userLogin filled it
  last,          \* the last operation: its name, inputs, outcome and the stores before it
  ops,           \* the number of operations on the stores carried out so far
  confirmations  \* the number of rentCar calls answered yes at the confirmation prompt

vars == <<fs, pc, loggedInUser, last, ops, confirmations>>

----------------------------------------------------------------------------
(* Bounds of the model *)

\* most records a store is grown to by addCar / registerNewUsers / rentCar
MaxUsers == 2
MaxCars == 2
MaxRentals == 2
\* most operations on the stores in one behaviour
MaxOps == 5

----------------------------------------------------------------------------
(* Program constants *)

MAX_USERS == 100
MAX_CAR_MODELS == 100

admin_user == "admin"
admin_password == "admin"

user_database == "data/registered_users.bin"
current_num_of_user == "data/highest_recorded_number.txt"
car_database == "data/car_database.db"
rental_records == "data/rental_records.bin"
\* the two spellings of the temporary file of the delete operations
data_temp_dat == "data/temp.dat"
temp_dat == "temp.dat"

Paths == {user_database, current_num_of_user, car_database, rental_records,
          data_temp_dat, temp_dat}

\* sizeof of the three structs (LP64: size_t and double are 8 bytes, 8-aligned)
SizeofUsers == 111
SizeofCarModel == 160
SizeofRental == 352

SizeOf(kind) ==
  CASE kind = "User" -> SizeofUsers
    [] kind = "Car" -> SizeofCarModel
    [] kind = "Rental" -> SizeofRental

----------------------------------------------------------------------------
(* Values typed at the prompts *)

FullnamePool == {"Ann"}
AddressPool == {"Ktm"}
NumberPool == {"9801", "9802"}
EmailPool == {"a@x"}
UsernamePool == {"ann", "bob"}
PasswordPool == {"pw"}

ModelPool == {"Civic", "Polo"}
CompanyPool == {"Honda"}
YearPool == {2020}
RatePool == {10}
CapacityPool == {4}
FuelPool == {30}
ColorPool == {"red"}

----------------------------------------------------------------------------
(* Records *)

Users(fullname, address, number, email, username, password) ==
  [kind |-> "User", fullname |-> fullname, address |-> address, number |-> number,
   email |-> email, username |-> username, password |-> password]

CarModel(model_name, company, year, rental_rate, passenger_capacity, fuel_efficiency, color, available_status) ==
  [kind |-> "Car", model_name |-> model_name, company |-> company, year |-> year,
   rental_rate |-> rental_rate, passenger_capacity |-> passenger_capacity,
   fuel_efficiency |-> fuel_efficiency, color |-> color,
   available_status |-> available_status]

\* bytes of a file that are not one whole stored record
Raw(n) == [kind |-> "Raw", bytes |-> n]

\* What a window of foreign bytes can read as: the strings and the flag are
\* whatever those bytes hold, so a key may or may not compare equal to one typed.
GarbledUsers ==
  {Users("?", "?", n, "?", u, "?") : n \in NumberPool \cup {"?"}, u \in UsernamePool \cup {"?"}}

GarbledCars ==
  {CarModel(m, "?", 0, 0, 0, 0, "?", a) : m \in ModelPool \cup {"?"}, a \in BOOLEAN}

Garbled(kind) == IF kind = "User" THEN GarbledUsers ELSE GarbledCars

----------------------------------------------------------------------------
(* Files *)

NoFile == [exists |-> FALSE, data |-> <<>>]
File(data) == [exists |-> TRUE, data |-> data]

EntryBytes(e) == IF e.kind = "Raw" THEN e.bytes ELSE SizeOf(e.kind)

\* adjacent runs of unfollowed bytes are one run
RECURSIVE Merge(_)
Merge(data) ==
  IF Len(data) < 2 THEN data
  ELSE IF data[1].kind = "Raw" /\ data[2].kind = "Raw"
       THEN Merge(<<Raw(data[1].bytes + data[2].bytes)>> \o SubSeq(data, 3, Len(data)))
       ELSE <<data[1]>> \o Merge(Tail(data))

\* the first n bytes of a file / what follows them; a record cut in two is Raw
RECURSIVE TakeBytes(_, _)
TakeBytes(data, n) ==
  IF n = 0 \/ data = <<>> THEN <<>>
  ELSE LET b == EntryBytes(Head(data)) IN
       IF b <= n THEN <<Head(data)>> \o TakeBytes(Tail(data), n - b)
       ELSE <<Raw(n)>>

RECURSIVE DropBytes(_, _)
DropBytes(data, n) ==
  IF n = 0 \/ data = <<>> THEN data
  ELSE LET b == EntryBytes(Head(data)) IN
       IF b <= n THEN DropBytes(Tail(data), n - b)
       ELSE <<Raw(b - n)>> \o Tail(data)

\* while (fread(&rec, sizeof(struct X), 1, file) == 1): the windows read, in
\* order; a window that is not one stored struct X is a Raw of sizeof(struct X)
RECURSIVE Windows(_, _, _)
Windows(kind, data, carry) ==
  IF data = <<>> THEN <<>>
  ELSE LET e == Head(data) IN
       IF e.kind = kind /\ carry = 0
       THEN <<e>> \o Windows(kind, Tail(data), 0)
       ELSE LET c == carry + EntryBytes(e) IN
            [i \in 1..(c \div SizeOf(kind)) |-> Raw(SizeOf(kind))]
              \o Windows(kind, Tail(data), c % SizeOf(kind))

\* the records such a scan can yield
Scans(kind, data) ==
  LET w == Windows(kind, data, 0)
      g == {i \in 1..Len(w) : w[i].kind = "Raw"}
  IN  {[i \in 1..Len(w) |-> IF i \in g THEN c[i] ELSE w[i]] : c \in [g -> Garbled(kind)]}

\* the fwrite with no fseek before it: the record lands after the i-th window
WriteBackNoSeek(kind, data, i, rec) ==
  Merge(TakeBytes(data, i * SizeOf(kind)) \o <<rec>>
          \o DropBytes(data, (i + 1) * SizeOf(kind)))

\* fseek(file, -sizeof(struct X), SEEK_CUR) after the i-th fread, then fwrite
WriteBack(kind, data, i, rec) ==
  Merge(TakeBytes(data, (i - 1) * SizeOf(kind)) \o <<rec>>
          \o DropBytes(data, i * SizeOf(kind)))

\* fopen(path, "wb") ... fwrite ... fclose: the file is cut to the one record
AppendRecordTruncating(file, rec) == File(<<rec>>)

\* fopen(path, "ab") ... fwrite ... fclose
AppendRecord(file, rec) == File(file.data \o <<rec>>)

\* remove(path) and rename(from, to) on the directory
Remove(dir, path) == [dir EXCEPT ![path] = NoFile]
Rename(dir, from, to) ==
  IF dir[from].exists THEN [dir EXCEPT ![to] = dir[from], ![from] = NoFile] ELSE dir

\* a value computed once (a local variable of the C code): written
\* TheValue({body : v \in {value}}), the body sees the value as v
TheValue(S) == CHOOSE r \in S : TRUE

\* the first of the indices hits (where a scanning loop breaks), 0 if none
FirstIndex(hits) ==
  IF hits = {} THEN 0 ELSE CHOOSE i \in hits : \A j \in hits : i <= j

----------------------------------------------------------------------------
(* The last operation *)

Stores(dir) == [users |-> dir[user_database], cars |-> dir[car_database],
                rentals |-> dir[rental_records]]

\* name, key typed, how it ended, what else it did, and the stores before it
Op(name, key, outcome, info, dir) ==
  [op |-> name, key |-> key, outcome |-> outcome, info |-> info, pre |-> Stores(dir)]

NoInfo == [none |-> TRUE]

\* no operation yet at the menu the session is in
NoOp == Op("start", "", "", NoInfo, [p \in Paths |-> NoFile])

NoUser == Users("", "", "", "", "", "")

\* the entries of w at the indices in keep, in order
RECURSIVE Pick(_, _, _)
Pick(w, keep, i) ==
  IF i > Len(w) THEN <<>>
  ELSE (IF i \in keep THEN <<w[i]>> ELSE <<>>) \o Pick(w, keep, i + 1)

----------------------------------------------------------------------------
(* Cars *)

\* addCar: the record typed in, available, appended to the car database
addCar ==
  /\ ops < MaxOps /\ ops' = ops + 1
  /\ pc = "manageCars"
  /\ Len(fs[car_database].data) < MaxCars
  /\ \E m \in ModelPool, co \in CompanyPool, y \in YearPool, r \in RatePool,
        cap \in CapacityPool, fe \in FuelPool, col \in ColorPool :
       LET car == CarModel(m, co, y, r, cap, fe, col, TRUE) IN
       /\ fs' = [fs EXCEPT ![car_database] = AppendRecord(@, car)]
       /\ last' = Op("addCar", m, "added", [car |-> car], fs)
  /\ UNCHANGED <<pc, loggedInUser, confirmations>>

\* the choices typed at the menu of updateCar (fields 1..8): the model name,
\* the rate, the status; 9 stands for any other number
CarChoices == {1, 4, 8, 9}

CarFieldPool(choice) ==
  CASE choice = 1 -> ModelPool
    [] choice = 2 -> CompanyPool
    [] choice = 3 -> YearPool
    [] choice = 4 -> RatePool
    [] choice = 5 -> CapacityPool
    [] choice = 6 -> FuelPool
    [] choice = 7 -> ColorPool
    [] choice = 8 -> {0, 1}
    [] OTHER -> {0}

\* the switch of updateCar on the record read
SetCarField(car, choice, v) ==
  CASE choice = 1 -> [car EXCEPT !.model_name = v]
    [] choice = 2 -> [car EXCEPT !.company = v]
    [] choice = 3 -> [car EXCEPT !.year = v]
    [] choice = 4 -> [car EXCEPT !.rental_rate = v]
    [] choice = 5 -> [car EXCEPT !.passenger_capacity = v]
    [] choice = 6 -> [car EXCEPT !.fuel_efficiency = v]
    [] choice = 7 -> [car EXCEPT !.color = v]
    [] choice = 8 -> IF v # 0 THEN [car EXCEPT !.available_status = TRUE] ELSE car
    [] OTHER -> car

\* where the update loops stop: the first record whose key compares equal
MatchCar(scan, modelToFind) ==
  FirstIndex({i \in 1..Len(scan) : scan[i].model_name = modelToFind})

\* updateCar(modelToFind)
updateCar ==
  /\ ops < MaxOps /\ ops' = ops + 1
  /\ pc = "manageCars"
  /\ \E modelToFind \in ModelPool :
       IF ~fs[car_database].exists
       THEN /\ last' = Op("updateCar", modelToFind, "openfail", NoInfo, fs)
            /\ UNCHANGED fs
       ELSE \E scan \in Scans("Car", fs[car_database].data) :
              LET i == MatchCar(scan, modelToFind) IN
              IF i = 0
              THEN /\ last' = Op("updateCar", modelToFind, "notfound", NoInfo, fs)
                   /\ UNCHANGED fs
              ELSE \E choice \in CarChoices : \E v \in CarFieldPool(choice) :
                     LET car == SetCarField(scan[i], choice, v) IN
                     /\ fs' = [fs EXCEPT ![car_database] =
                                 File(WriteBack("Car", @.data, i, car))]
                     /\ last' = Op("updateCar", modelToFind, "updated",
                                   [at |-> i, choice |-> choice, value |-> v], fs)
  /\ UNCHANGED <<pc, loggedInUser, confirmations>>

\* the indices typed at "Enter the index of the model you want to remove"
CarIndexPool == (-1)..MaxCars

\* the rebuild loop of removeCarModelByName: every window but the selected one
CarsKept(w, selectedIndex) == Pick(w, {i \in 1..Len(w) : i - 1 # selectedIndex}, 1)

\* the same end taking the rental records away with the car database
replaceCarDatabaseAndRentals(dir) ==
  Remove(Rename(Remove(dir, car_database), data_temp_dat, car_database), rental_records)

\* the end of removeCarModelByName, the two files closed: the directory it leaves
replaceCarDatabase(dir) == Rename(Remove(dir, car_database), data_temp_dat, car_database)

\* removeCarModelByName
removeCarModelByName ==
  /\ ops < MaxOps /\ ops' = ops + 1
  /\ pc = "manageCars"
  /\ IF ~fs[car_database].exists
     THEN /\ last' = Op("removeCar", 0, "openfail", NoInfo, fs)
          /\ UNCHANGED fs
     ELSE \/ \* scanf("%d") reads no number
             /\ last' = Op("removeCar", 0, "invalid", NoInfo, fs)
             /\ UNCHANGED fs
          \/ \E selectedIndex \in CarIndexPool :
               LET w == Windows("Car", fs[car_database].data, 0)
                   d1 == [fs EXCEPT ![temp_dat] = File(Merge(CarsKept(w, selectedIndex)))]
               IN  /\ fs' = replaceCarDatabase(d1)
                   /\ last' = Op("removeCar", selectedIndex,
                                 IF d1[data_temp_dat].exists THEN "removed" ELSE "renamefail",
                                 [records |-> Len(w)], fs)
  /\ UNCHANGED <<pc, loggedInUser, confirmations>>

----------------------------------------------------------------------------
(* Users *)

\* the choices typed at the menu of updateUser (fields 1..6): the number, the
\* username; 7 stands for any other number
UserChoices == {3, 5, 7}

UserFieldPool(choice) ==
  CASE choice = 1 -> FullnamePool
    [] choice = 2 -> AddressPool
    [] choice = 3 -> NumberPool
    [] choice = 4 -> EmailPool
    [] choice = 5 -> UsernamePool
    [] choice = 6 -> PasswordPool
    [] OTHER -> {""}

\* the switch of updateUser on the record read
SetUserField(user, choice, v) ==
  CASE choice = 1 -> [user EXCEPT !.fullname = v]
    [] choice = 2 -> [user EXCEPT !.address = v]
    [] choice = 3 -> [user EXCEPT !.number = v]
    [] choice = 4 -> [user EXCEPT !.email = v]
    [] choice = 5 -> [user EXCEPT !.username = v]
    [] choice = 6 -> [user EXCEPT !.password = v]
    [] OTHER -> user

MatchUser(scan, usernameToFind) ==
  FirstIndex({i \in 1..Len(scan) : scan[i].username = usernameToFind})

\* updateUser(usernameToFind): the effect on the files and on last
updateUser(usernameToFind) ==
  IF ~fs[user_database].exists
  THEN /\ last' = Op("updateUser", usernameToFind, "openfail", NoInfo, fs)
       /\ UNCHANGED fs
  ELSE \E scan \in Scans("User", fs[user_database].data) :
         LET i == MatchUser(scan, usernameToFind) IN
         IF i = 0
         THEN /\ last' = Op("updateUser", usernameToFind, "notfound", NoInfo, fs)
              /\ UNCHANGED fs
         ELSE \E choice \in UserChoices : \E v \in UserFieldPool(choice) :
                LET user == SetUserField(scan[i], choice, v) IN
                /\ fs' = [fs EXCEPT ![user_database] =
                            File(WriteBack("User", @.data, i, user))]
                /\ last' = Op("updateUser", usernameToFind, "updated",
                              [at |-> i, choice |-> choice, value |-> v], fs)

\* adminDashboard, Manage Users, 1: updateUser(username typed)
adminUpdateUser ==
  /\ ops < MaxOps /\ ops' = ops + 1
  /\ pc = "manageUsers"
  /\ \E username \in UsernamePool : updateUser(username)
  /\ UNCHANGED <<pc, loggedInUser, confirmations>>

\* userDashboardMenu, 4: updateUser(user->username)
accountSettings ==
  /\ ops < MaxOps /\ ops' = ops + 1
  /\ pc = "user"
  /\ updateUser(loggedInUser.username)
  /\ UNCHANGED <<pc, loggedInUser, confirmations>>

\* the rebuild loop of removeUserByUsername: every window whose username differs
UsersKept(w, scan, usernameToRemove) ==
  Pick(w, {i \in 1..Len(w) : scan[i].username # usernameToRemove}, 1)

\* the same end with no test of userFound: the store is always replaced
replaceUserDatabaseAlways(dir, userFound) ==
  IF ~dir[user_database].exists THEN Remove(dir, temp_dat)
  ELSE Rename(Remove(dir, user_database), temp_dat, user_database)

\* the end of removeUserByUsername, the two files closed: the directory it leaves
replaceUserDatabase(dir, userFound) ==
  IF ~userFound THEN Remove(dir, temp_dat)
  ELSE IF ~dir[user_database].exists THEN Remove(dir, temp_dat)
  ELSE Rename(Remove(dir, user_database), temp_dat, user_database)

\* removeUserByUsername(usernameToRemove)
removeUserByUsername ==
  /\ ops < MaxOps /\ ops' = ops + 1
  /\ pc = "manageUsers"
  /\ \E usernameToRemove \in UsernamePool :
       IF ~fs[user_database].exists
       THEN /\ last' = Op("removeUser", usernameToRemove, "openfail", NoInfo, fs)
            /\ UNCHANGED fs
       ELSE \E scan \in Scans("User", fs[user_database].data) :
              LET w == Windows("User", fs[user_database].data, 0)
                  userFound == \E i \in 1..Len(scan) : scan[i].username = usernameToRemove
                  d1 == [fs EXCEPT ![data_temp_dat] =
                           File(Merge(UsersKept(w, scan, usernameToRemove)))]
              IN  /\ fs' = replaceUserDatabase(d1, userFound)
                  /\ last' = Op("removeUser", usernameToRemove,
                                IF ~userFound THEN "notfound"
                                ELSE IF d1[temp_dat].exists THEN "removed" ELSE "renamefail",
                                NoInfo, fs)
  /\ UNCHANGED <<pc, loggedInUser, confirmations>>

----------------------------------------------------------------------------
(* Text and numbers *)

DigitChars == <<"0", "1", "2", "3", "4", "5", "6", "7", "8", "9">>
IsDigit(c) == \E d \in 1..10 : DigitChars[d] = c
DigitValue(c) == (CHOOSE d \in 1..10 : DigitChars[d] = c) - 1

\* printf("%zu") / ("%d") of a number >= 0
RECURSIVE ToDecimal(_)
ToDecimal(n) ==
  IF n < 10 THEN <<DigitChars[n + 1]>>
  ELSE ToDecimal(n \div 10) \o <<DigitChars[(n % 10) + 1]>>

\* the run of digits of text from index i: its value so far, and where it ends
RECURSIVE ScanDigits(_, _, _)
ScanDigits(text, i, acc) ==
  IF i <= Len(text) /\ IsDigit(text[i])
  THEN ScanDigits(text, i + 1, acc * 10 + DigitValue(text[i]))
  ELSE [value |-> acc, next |-> i]

RECURSIVE SkipSpace(_, _)
SkipSpace(text, i) ==
  IF i <= Len(text) /\ text[i] = " " THEN SkipSpace(text, i + 1) ELSE i

\* one %d / %zu conversion of scanf at index i: white space, a sign, digits
ScanInt(text, i) ==
  LET j == SkipSpace(text, i)
      signed == j <= Len(text) /\ text[j] \in {"+", "-"}
      k == IF signed THEN j + 1 ELSE j
      run == ScanDigits(text, k, 0)
  IN  IF run.next = k
      THEN [ok |-> FALSE, value |-> 0, next |-> i]
      ELSE [ok |-> TRUE,
            value |-> IF signed /\ text[j] = "-" THEN 0 - run.value ELSE run.value,
            next |-> run.next]

\* loadHighestRecordedNumber
loadHighestRecordedNumber(dir) ==
  IF ~dir[current_num_of_user].exists THEN 0
  ELSE LET r == ScanInt(dir[current_num_of_user].data, 1) IN
       IF r.ok THEN r.value ELSE 0

\* saveHighestRecordedNumber(highestNumber)
saveHighestRecordedNumber(dir, highestNumber) ==
  [dir EXCEPT ![current_num_of_user] = File(ToDecimal(highestNumber))]

----------------------------------------------------------------------------
(* Registration *)

\* The username loop of enterUserData: the k-th name typed is compared with the
\* k-th record read and with no other; the names typed up to the one kept.
UsernamesTried(scan) ==
  UNION {{[j \in 1..k |-> IF j < k THEN scan[j].username ELSE name] :
            name \in {n \in UsernamePool : k > Len(scan) \/ n # scan[k].username}} :
         k \in 1..(Len(scan) + 1)}

\* enterUserData(user) on the files dir: how it can end.  The number typed is
\* compared with the first record only; on a match a new number is asked for,
\* the file is closed inside the loop and the loop goes on to fread from the
\* closed stream, which either reads nothing (the new number is kept as typed)
\* or ends the process.
enterUserData(dir) ==
  LET noClash(scan, number) == Len(scan) = 0 \/ number # scan[1].number
      typed == FullnamePool \X AddressPool \X NumberPool \X EmailPool \X PasswordPool
  IN  UNION {
        UNION {
          LET number == t[3] IN
          IF noClash(scan, number)
          THEN {[crashed |-> FALSE, asked |-> 0, typed |-> number, tried |-> names,
                 user |-> Users(t[1], t[2], number, t[4], names[Len(names)], t[5])] :
                  names \in UsernamesTried(scan)}
          ELSE {[crashed |-> TRUE, asked |-> 1, typed |-> number, tried |-> <<>>,
                 user |-> NoUser]}
               \cup
               {[crashed |-> FALSE, asked |-> 1, typed |-> number, tried |-> x[2],
                 user |-> Users(t[1], t[2], x[1], t[4], x[2][Len(x[2])], t[5])] :
                  x \in NumberPool \X UsernamesTried(scan)}
          : t \in typed}
        : scan \in Scans("User", dir[user_database].data)}

\* registerNewUsers
registerNewUsers ==
  /\ ops < MaxOps /\ ops' = ops + 1
  /\ pc \in {"main", "manageUsers"}
  /\ Len(fs[user_database].data) < MaxUsers
  /\ LET numUsers == loadHighestRecordedNumber(fs)
         \* fopen(user_database, "ab+")
         d1 == [fs EXCEPT ![user_database] = IF @.exists THEN @ ELSE File(<<>>)]
     IN  \* an fopen of the user database in enterUserData fails: the error is
         \* printed and fread is called with the null pointer, which ends the
         \* process
         \/ /\ fs' = d1
            /\ pc' = "crashed"
            /\ last' = Op("register", "", "readopenfail", [slot |-> numUsers], fs)
         \/ \E e \in enterUserData(d1) :
           LET info == [slot |-> numUsers, typed |-> e.typed, asked |-> e.asked,
                        tried |-> e.tried, user |-> e.user]
           IN
           IF e.crashed
           THEN /\ fs' = d1
                /\ pc' = "crashed"
                /\ last' = Op("register", "", "crashed", info, fs)
           ELSE \* newUser[numUsers] with numUsers >= MAX_USERS is outside the
                \* array: the write through it may end the process
                \/ /\ numUsers >= MAX_USERS
                   /\ fs' = d1
                   /\ pc' = "crashed"
                   /\ last' = Op("register", "", "crashed", info, fs)
                \* fwrite wrote the record
                \/ /\ fs' = saveHighestRecordedNumber(
                              [d1 EXCEPT ![user_database] = AppendRecord(@, e.user)],
                              numUsers + 1)
                   /\ pc' = pc
                   /\ last' = Op("register", e.user.username, "registered", info, fs)
                \* fwrite failed: the error is printed, the counter is saved all the same
                \/ /\ fs' = saveHighestRecordedNumber(d1, numUsers + 1)
                   /\ pc' = pc
                   /\ last' = Op("register", "", "writefail", [slot |-> numUsers], fs)
  /\ UNCHANGED <<loggedInUser, confirmations>>

----------------------------------------------------------------------------
(* Rental days *)

\* days from 1970-01-01 to the civil date y-m-d, m in 1..12, any d
DaysFromCivil(y, m, d) ==
  LET yy == IF m <= 2 THEN y - 1 ELSE y
      era == yy \div 400
      yoe == yy - era * 400
      mp == (m + 9) % 12
      doy == (153 * mp + 2) \div 5 + d - 1
      doe == yoe * 365 + yoe \div 4 - yoe \div 100 + doy
  IN  era * 146097 + doe - 719468

\* mktime with every month taken as thirty days
mktimeThirtyDayMonths(tm_year, tm_mon, tm_mday) ==
  (((tm_year - 70) * 12 + tm_mon) * 30 + tm_mday) * 86400

\* mktime of a struct tm with only tm_year, tm_mon, tm_mday set (tm_isdst = 0):
\* out-of-range months and days are carried over; seconds since the epoch
mktime(tm_year, tm_mon, tm_mday) ==
  DaysFromCivil(tm_year + 1900 + tm_mon \div 12, (tm_mon % 12) + 1, 1) * 86400
    + (tm_mday - 1) * 86400

\* sscanf(date, "%d-%d-%d", &y, &m, &d): the number of conversions and the values
sscanfDate(date) ==
  LET sep(i) == i <= Len(date) /\ date[i] = "-"
      none == [ok |-> FALSE, value |-> 0, next |-> 0]
  IN
  TheValue({ TheValue({ TheValue({
    [n |-> IF ~y.ok THEN 0 ELSE IF ~m.ok THEN 1 ELSE IF ~d.ok THEN 2 ELSE 3,
     year |-> y.value, month |-> m.value, day |-> d.value]
    : d \in {IF m.ok /\ sep(m.next) THEN ScanInt(date, m.next + 1) ELSE none} })
    : m \in {IF y.ok /\ sep(y.next) THEN ScanInt(date, y.next + 1) ELSE none} })
    : y \in {ScanInt(date, 1)} })

\* calculateRentalDays(pickupDate, returnDate); -1 is its error value
calculateRentalDays(pickupDate, returnDate) ==
  IF \/ Len(pickupDate) # 10 \/ Len(returnDate) # 10
     \/ pickupDate[5] # "-" \/ returnDate[5] # "-"
     \/ pickupDate[8] # "-" \/ returnDate[8] # "-"
  THEN -1
  ELSE
  TheValue({
    IF p.n # 3 \/ r.n # 3 THEN -1
    ELSE TheValue({
      IF pickupTime = -1 \/ returnTime = -1 THEN -1
      ELSE IF returnTime - pickupTime < 0 THEN -1
      ELSE (returnTime - pickupTime) \div 86400
      : pickupTime \in {mktime(p.year - 1900, p.month - 1, p.day)},
        returnTime \in {mktime(r.year - 1900, r.month - 1, r.day)} })
    : p \in {sscanfDate(pickupDate)}, r \in {sscanfDate(returnDate)} })

----------------------------------------------------------------------------
(* Renting *)

Date_2024_01_01 == <<"2", "0", "2", "4", "-", "0", "1", "-", "0", "1">>
Date_2024_01_05 == <<"2", "0", "2", "4", "-", "0", "1", "-", "0", "5">>
Date_slashes == <<"2", "0", "2", "4", "/", "0", "1", "/", "0", "5">>

\* the dates typed at the two prompts of rentCar
DatePairs == {<<Date_2024_01_01, Date_2024_01_05>>, <<Date_2024_01_05, Date_2024_01_01>>}

\* the numbers generateUniqueRentalID draws lie in 10000..99999
RentalNumberPool == {10000, 99999}

\* generateUniqueRentalID(prefix): prefix, then the number as %05d
generateUniqueRentalID(prefix, uniqueID) == <<prefix>> \o ToDecimal(uniqueID)

\* the answers typed at "Confirm rental? (yes/no)"
AnswerPool == {"yes", "no"}
IsYes(choice) == choice \in {"yes", "Yes", "YES"}

\* the first 20 characters of ctime(), as strncpy leaves them in rental.time
TimePool == {"Tue Nov  3 00:00:00 "}

Rental(selectedCar, username, pickupDate, returnDate, totalCost, selectedCarIndex, rentalID, time) ==
  [kind |-> "Rental", selectedCar |-> selectedCar, username |-> username,
   pickupDate |-> pickupDate, returnDate |-> returnDate, totalCost |-> totalCost,
   selectedCarIndex |-> selectedCarIndex, rentalID |-> rentalID, time |-> time]

\* the first loop with numAvailableCars incremented for every record read
availableCarModelsUnfiltered(scan) == scan

\* the first loop of rentCar: availableCarModels[0 .. numAvailableCars-1]
availableCarModels(scan) == SelectSeq(scan, LAMBDA c : c.available_status)

\* the indices typed at "Enter the index of the car you want to rent"
RentIndexPool == 0..(MaxCars + 1)

\* rentCar with no availability loop
flipAvailabilityNever(dir, scan, model_name) == dir

\* the availability loop with no break: every record of that model name
flipAvailabilityAll(dir, scan, model_name) ==
  [dir EXCEPT ![car_database] =
     File([i \in 1..Len(scan) |->
             IF scan[i].model_name = model_name
             THEN [scan[i] EXCEPT !.available_status = FALSE] ELSE scan[i]])]

\* the availability loop of rentCar: the first record whose model name is that
\* of the selected car is written back with available_status false
flipAvailability(dir, scan, model_name) ==
  LET j == MatchCar(scan, model_name) IN
  IF j = 0 THEN dir
  ELSE [dir EXCEPT ![car_database] =
          File(WriteBack("Car", @.data, j, [scan[j] EXCEPT !.available_status = FALSE]))]

\* rentCar(user), up to the fclose of the car database: the prompts, the cost,
\* the rental ID, the answer and the availability loop
rentCar ==
  /\ ops < MaxOps /\ ops' = ops + 1
  /\ pc = "user"
  /\ Len(fs[rental_records].data) < MaxRentals
  /\ IF ~fs[car_database].exists
     THEN /\ last' = Op("rentCar", 0, "openfail", NoInfo, fs)
          /\ UNCHANGED <<fs, pc>>
     ELSE \E scan \in Scans("Car", fs[car_database].data) :
       LET cars == availableCarModels(scan)
           numAvailableCars == Len(cars)
       IN
       IF numAvailableCars = 0
       THEN /\ last' = Op("rentCar", 0, "nocars", NoInfo, fs)
            /\ UNCHANGED <<fs, pc>>
       ELSE \E selectedCarIndex \in RentIndexPool :
         IF selectedCarIndex = 0
         THEN /\ last' = Op("rentCar", 0, "canceled", NoInfo, fs)
              /\ UNCHANGED <<fs, pc>>
         ELSE IF selectedCarIndex < 1 \/ selectedCarIndex > numAvailableCars
         THEN /\ last' = Op("rentCar", selectedCarIndex, "badindex", NoInfo, fs)
              /\ UNCHANGED <<fs, pc>>
         ELSE
           \* the second fopen of the car database fails: the error is printed
           \* and fread is called with the null pointer, which ends the process
           \/ /\ last' = Op("rentCar", selectedCarIndex, "reopenfail", NoInfo, fs)
              /\ pc' = "crashed"
              /\ UNCHANGED fs
           \/ \E dates \in DatePairs, uniqueID \in RentalNumberPool,
                 choice \in AnswerPool, time \in TimePool :
              \E days \in {calculateRentalDays(dates[1], dates[2])} :
               LET selectedCar == cars[selectedCarIndex]
                   totalCost == selectedCar.rental_rate * days
                   rental == Rental(selectedCar, loggedInUser.username, dates[1], dates[2],
                                    totalCost, selectedCarIndex,
                                    generateUniqueRentalID("R", uniqueID), time)
               IN  /\ fs' = flipAvailability(fs, scan, selectedCar.model_name)
                   /\ last' = Op("rentCar", selectedCarIndex, "flipped",
                                 [days |-> days,
                                  flipped |-> MatchCar(scan, selectedCar.model_name),
                                  rental |-> rental, choice |-> choice], fs)
                   /\ pc' = "rentCar_append"
  /\ UNCHANGED <<loggedInUser, confirmations>>

\* rentCar(user), from the timestamp on: the record is appended to the rental
\* records whatever the answer was
rentCarAppend ==
  /\ pc = "rentCar_append"
  /\ LET rentalCompleted == IsYes(last.info.choice) IN
     /\ \/ /\ fs' = [fs EXCEPT ![rental_records] = AppendRecord(@, last.info.rental)]
           /\ last' = [last EXCEPT !.outcome = IF rentalCompleted THEN "confirmed"
                                                                  ELSE "declined"]
           \* while (!rentalCompleted) ; -- a loop with no side effect, which
           \* the build may keep (it never ends) or drop (rentCar returns)
           /\ IF rentalCompleted THEN pc' = "user" ELSE pc' \in {"user", "hung"}
        \* fopen of the rental records fails: the error is printed and fwrite
        \* is called with the null pointer, which ends the process
        \/ /\ fs' = fs
           /\ last' = [last EXCEPT !.outcome = "appendopenfail"]
           /\ pc' = "crashed"
     /\ confirmations' = IF rentalCompleted THEN confirmations + 1
                                            ELSE confirmations
  /\ UNCHANGED <<loggedInUser, ops>>

\* the process is ended from outside between the two writes of rentCar
kill ==
  /\ pc = "rentCar_append"
  /\ pc' = "killed"
  /\ UNCHANGED <<fs, loggedInUser, last, ops, confirmations>>

----------------------------------------------------------------------------
(* The session *)

CredentialPool == {admin_user, "guess"}

\* main, 3: adminLogin
adminLogin ==
  /\ pc = "main"
  /\ \E loginInput \in CredentialPool, passwordInput \in CredentialPool :
       LET info == [password |-> passwordInput] IN
       IF loginInput = admin_user /\ passwordInput = admin_password
       THEN /\ pc' = "admin"
            /\ last' = Op("adminLogin", loginInput, "found", info, fs)
       ELSE /\ pc' = "main"
            /\ last' = Op("adminLogin", loginInput, "failed", info, fs)
  /\ UNCHANGED <<fs, loggedInUser, ops, confirmations>>

\* adminDashboard: 2 Manage Cars, 4 Manage Users, 6 Exit; 4 in a submenu returns
adminDashboard ==
  /\ \/ pc = "admin" /\ pc' \in {"manageCars", "manageUsers", "main"}
     \/ pc \in {"manageCars", "manageUsers"} /\ pc' = "admin"
  /\ last' = NoOp
  /\ UNCHANGED <<fs, loggedInUser, ops, confirmations>>

\* what is typed at the login prompt: any of the three identifying fields
LoginPool == {"ann", "9802", "a@x"}

\* what is typed at the password prompt
LoginPasswordPool == PasswordPool \cup {"guess"}

\* the loop of userLogin with no comparison of the password
LoginMatchAnyPassword(scan, loginInput, passwordInput) ==
  FirstIndex({i \in 1..Len(scan) :
                loginInput \in {scan[i].username, scan[i].number, scan[i].email}})

\* the loop of userLogin: where it breaks, 0 if it reads to the end
LoginMatch(scan, loginInput, passwordInput) ==
  FirstIndex({i \in 1..Len(scan) :
                /\ loginInput \in {scan[i].username, scan[i].number, scan[i].email}
                /\ passwordInput = scan[i].password})

\* main, 2: userLogin(&loggedInUser)
userLogin ==
  /\ pc = "main"
  /\ \E loginInput \in LoginPool, passwordInput \in LoginPasswordPool :
       LET info == [password |-> passwordInput] IN
       IF ~fs[user_database].exists
       THEN /\ last' = Op("userLogin", loginInput, "openfail", info, fs)
            /\ UNCHANGED <<pc, loggedInUser>>
       ELSE \E scan \in Scans("User", fs[user_database].data) :
              LET found == LoginMatch(scan, loginInput, passwordInput) IN
              IF found # 0
              THEN /\ pc' = "user" /\ loggedInUser' = scan[found]
                   /\ last' = Op("userLogin", loginInput, "found", info, fs)
              ELSE /\ last' = Op("userLogin", loginInput, "failed", info, fs)
                   /\ UNCHANGED <<pc, loggedInUser>>
  /\ UNCHANGED <<fs, ops, confirmations>>

\* userDashboardMenu, 5: logout
logout ==
  /\ pc = "user"
  /\ pc' = "main"
  /\ loggedInUser' = NoUser
  /\ last' = NoOp
  /\ UNCHANGED <<fs, ops, confirmations>>

\* main, 4: exit(0)
exit ==
  /\ pc = "main"
  /\ pc' = "exited"
  /\ last' = NoOp
  /\ UNCHANGED <<fs, loggedInUser, ops, confirmations>>

\* the program is run again on the same directory
main ==
  /\ pc \in {"exited", "crashed", "hung", "killed"}
  /\ pc' = "main"
  /\ loggedInUser' = NoUser
  /\ last' = NoOp
  /\ UNCHANGED <<fs, ops, confirmations>>

----------------------------------------------------------------------------
Init ==
  /\ fs = [p \in Paths |-> NoFile]
  /\ pc = "main"
  /\ loggedInUser = NoUser
  /\ last = NoOp
  /\ ops = 0
  /\ confirmations = 0

Next ==
  \/ main
  \/ exit
  \/ adminLogin
  \/ adminDashboard
  \/ userLogin
  \/ logout
  \/ registerNewUsers
  \/ adminUpdateUser
  \/ accountSettings
  \/ removeUserByUsername
  \/ addCar
  \/ updateCar
  \/ removeCarModelByName
  \/ rentCar
  \/ rentCarAppend
  \/ kill

Spec == Init /\ [][Next]_vars

----------------------------------------------------------------------------
(* calculateRentalDays on its own: the two texts typed at the prompts of    *)
(* rentCar, then the call                                                   *)

\* the text of n in two digits, as typed
Pad2(n) == IF n < 10 THEN <<"0">> \o ToDecimal(n) ELSE ToDecimal(n)

\* what can be typed at a date prompt: ten characters year-month-day with the
\* numbers of a calendar date or not, and texts that are not of that form
YearPool2 == {2023, 2024}
MonthPool == {0, 1, 2, 3, 12, 13}
DayPool == {0, 1, 5, 28, 29, 30, 31, 32}

Typed(text, numeric, year, month, day) ==
  [text |-> text, numeric |-> numeric, year |-> year, month |-> month, day |-> day]

NumericDates ==
  {Typed(ToDecimal(y) \o <<"-">> \o Pad2(m) \o <<"-">> \o Pad2(d), TRUE, y, m, d) :
     y \in YearPool2, m \in MonthPool, d \in DayPool}

Date_short == <<"2", "0", "2", "4", "-", "1", "-", "0", "5">>
Date_long == <<"2", "0", "2", "4", "-", "0", "1", "-", "0", "0", "5">>
Date_letters == <<"2", "0", "2", "4", "-", "J", "a", "-", "0", "5">>
Date_signed == <<"2", "0", "2", "4", "-", "+", "1", "-", "+", "5">>
Date_half_slash == <<"2", "0", "2", "4", "-", "0", "1", "/", "0", "5">>

OtherTexts ==
  {Typed(t, FALSE, 0, 0, 0) :
     t \in {Date_slashes, Date_short, Date_long, Date_letters, Date_signed, Date_half_slash}}

DatePool == NumericDates \cup OtherTexts

\* rentCar has read the two dates
InitDates ==
  /\ fs = [p \in Paths |-> NoFile]
  /\ pc = "rentCar_dates"
  /\ loggedInUser = NoUser
  /\ \E p \in DatePool, r \in DatePool :
       last = Op("calculateRentalDays", "", "",
                 [pickupDate |-> p, returnDate |-> r, days |-> 0], [q \in Paths |-> NoFile])
  /\ ops = 0
  /\ confirmations = 0

\* the call of calculateRentalDays in rentCar
callCalculateRentalDays ==
  /\ pc = "rentCar_dates"
  /\ pc' = "rentCar_days"
  /\ last' = [last EXCEPT
                !.outcome = "returned",
                !.info.days = calculateRentalDays(last.info.pickupDate.text,
                                                  last.info.returnDate.text)]
  /\ UNCHANGED <<fs, loggedInUser, ops, confirmations>>

NextDates == callCalculateRentalDays

SpecDates == InitDates /\ [][NextDates]_vars

----------------------------------------------------------------------------
(* The counter after many registrations: the files of a run that follows    *)
(* n registrations whose records were not written, the user file open      *)
(* "ab+" having made it                                                     *)

SavedCounts == {0, MAX_USERS - 1, MAX_USERS}

InitCounter ==
  /\ \E n \in SavedCounts :
       fs = saveHighestRecordedNumber(
              [[p \in Paths |-> NoFile] EXCEPT ![user_database] = File(<<>>)], n)
  /\ pc = "main"
  /\ loggedInUser = NoUser
  /\ last = NoOp
  /\ ops = 0
  /\ confirmations = 0

NextCounter ==
  \/ main
  \/ adminLogin
  \/ adminDashboard
  \/ registerNewUsers
  \/ removeUserByUsername

SpecCounter == InitCounter /\ [][NextCounter]_vars

----------------------------------------------------------------------------
(* What the claims speak of *)

\* a store file that exists and holds only whole records of its kind
IsStore(kind, file) ==
  file.exists /\ \A i \in 1..Len(file.data) : file.data[i].kind = kind

UserStore == fs[user_database]
CarStore == fs[car_database]
RentalStore == fs[rental_records]

\* the records of s whose username differs from name, in their order
OtherUsers(s, name) == SelectSeq(s, LAMBDA u : u.username # name)

\* s without its element at 0-based position i
WithoutIndex(s, i) == SubSeq(s, 1, i) \o SubSeq(s, i + 2, Len(s))

Removed(name) == last.op = name /\ last.outcome \in {"removed", "renamefail"}

----------------------------------------------------------------------------
(* C1: removing a user by username from a user store that holds a record    *)
(* with that username leaves the store holding exactly the other records,   *)
(* in their order.                                                          *)
C1_RemoveUserLeavesTheOthers ==
  ( /\ Removed("removeUser")
    /\ IsStore("User", last.pre.users)
    /\ \E i \in 1..Len(last.pre.users.data) : last.pre.users.data[i].username = last.key )
  => UserStore = File(OtherUsers(last.pre.users.data, last.key))

(* C2: removing a car by an index in range leaves the car store holding the *)
(* other records in their order; an index out of range leaves it unchanged. *)
C2_RemoveCarByIndex ==
  ( Removed("removeCar") /\ IsStore("Car", last.pre.cars) )
  => CarStore = IF last.key >= 0 /\ last.key < Len(last.pre.cars.data)
                THEN File(WithoutIndex(last.pre.cars.data, last.key))
                ELSE last.pre.cars

\* rentCar went past the date prompts
Rented == last.op = "rentCar" /\ last.outcome \in {"confirmed", "declined"}

(* C3: when calculateRentalDays reports an error, rentCar writes nothing:   *)
(* the car store and the rental store are as they were before the call.     *)
C3_DateErrorAbortsRental ==
  ( Rented /\ last.info.days = -1 )
  => ( CarStore = last.pre.cars /\ RentalStore = last.pre.rentals )

(* C4: the rental store holds one record per rentCar call answered yes, and *)
(* a call answered otherwise appends no record and changes no car.          *)
C4_OneRentalPerConfirmation ==
  /\ Len(RentalStore.data) = confirmations
  /\ ( last.op = "rentCar" /\ last.outcome = "declined" )
       => ( RentalStore = last.pre.rentals /\ CarStore = last.pre.cars )

(* C5: no two records of the user store have the same username, and no two  *)
(* the same phone number.                                                   *)
C5_UsernameAndNumberUnique ==
  IsStore("User", UserStore)
  => \A i, j \in 1..Len(UserStore.data) :
       i # j => /\ UserStore.data[i].username # UserStore.data[j].username
                /\ UserStore.data[i].number # UserStore.data[j].number

\* registration appended a record to a user store of whole records
Registered ==
  /\ last.op = "register" /\ last.outcome = "registered"
  /\ ~last.pre.users.exists \/ IsStore("User", last.pre.users)

(* C6: the record registration appends has a phone number and a username    *)
(* that no stored user has, and a candidate whose number and username are   *)
(* unused is accepted without being asked again.                            *)
C6_RegistrationRejectsUsedKeys ==
  Registered =>
    LET before == last.pre.users.data
        used(f(_), v) == \E i \in 1..Len(before) : f(before[i]) = v
        number(u) == u.number
        username(u) == u.username
    IN  /\ ~used(number, last.info.user.number)
        /\ ~used(username, last.info.user.username)
        /\ ( ~used(number, last.info.typed) /\ ~used(username, last.info.tried[1]) )
             => ( last.info.asked = 0 /\ Len(last.info.tried) = 1 )

(* C7: each store file holds only records of its own entity.                *)
C7_StoresHomogeneous ==
  /\ UserStore.exists => IsStore("User", UserStore)
  /\ CarStore.exists => IsStore("Car", CarStore)
  /\ RentalStore.exists => IsStore("Rental", RentalStore)

(* C8: in both delete operations, when the final rename fails the original  *)
(* store file still exists with its contents unchanged.                     *)
C8_FailedRenameKeepsOriginal ==
  /\ ( last.op = "removeUser" /\ last.outcome = "renamefail" )
       => ( UserStore.exists /\ UserStore = last.pre.users )
  /\ ( last.op = "removeCar" /\ last.outcome = "renamefail" )
       => ( CarStore.exists /\ CarStore = last.pre.cars )

\* the store an update or a delete works on, before and after the last operation
KindOf(op) == IF op \in {"updateUser", "removeUser"} THEN "User" ELSE "Car"
Before(op) == IF KindOf(op) = "User" THEN last.pre.users ELSE last.pre.cars
After(op) == IF KindOf(op) = "User" THEN UserStore ELSE CarStore
KeyOf(rec) == IF rec.kind = "User" THEN rec.username
              ELSE IF rec.kind = "Car" THEN rec.model_name ELSE "?"

(* C9: an in-place update that finds a match rewrites one record, the first *)
(* whose key matches: the number of records is unchanged and the record at  *)
(* every other position is the same as before, at the same position.        *)
C9_UpdateRewritesOneRecord ==
  ( last.op \in {"updateUser", "updateCar"} /\ last.outcome = "updated" )
  => LET kind == KindOf(last.op)
         old == Windows(kind, Before(last.op).data, 0)
         new == Windows(kind, After(last.op).data, 0)
     IN  /\ After(last.op).exists
         /\ Len(new) = Len(old)
         /\ last.info.at \in 1..Len(old)
         /\ \A k \in 1..Len(old) : k # last.info.at => new[k] = old[k]
         /\ IsStore(kind, Before(last.op))
              => /\ KeyOf(old[last.info.at]) = last.key
                 /\ \A k \in 1..(last.info.at - 1) : KeyOf(old[k]) # last.key
                 /\ IsStore(kind, After(last.op))

\* an update changed the second of two records
C9_Witness ==
  /\ last.op \in {"updateUser", "updateCar"} /\ last.outcome = "updated"
  /\ IsStore(KindOf(last.op), Before(last.op))
  /\ Len(Before(last.op).data) = 2
  /\ last.info.at = 2
  /\ After(last.op) # Before(last.op)

(* C10: when the key matches no record, updateUser, updateCar and           *)
(* removeUserByUsername leave the store file in place with the same records *)
(* in the same order.                                                       *)
C10_NotFoundChangesNothing ==
  ( last.op \in {"updateUser", "updateCar", "removeUser"} /\ last.outcome = "notfound" )
  => ( After(last.op).exists /\ After(last.op) = Before(last.op) )

\* a user that is not there was asked to be removed from a store with a record
C10_Witness ==
  /\ last.op = "removeUser" /\ last.outcome = "notfound"
  /\ IsStore("User", last.pre.users)
  /\ Len(last.pre.users.data) > 0

----------------------------------------------------------------------------
(* Renting and the stores *)

\* the positions of the records of data flagged available
AvailableAt(data) == {i \in 1..Len(data) : data[i].available_status}

\* the last operation was a rentCar answered yes with dates that gave a day
\* count, on a car store of whole records with exactly one available record
RentedTheOnlyAvailableCar ==
  /\ last.op = "rentCar" /\ last.outcome = "confirmed"
  /\ last.info.days >= 0
  /\ IsStore("Car", last.pre.cars)
  /\ Cardinality(AvailableAt(last.pre.cars.data)) = 1

\* the car store lists no available car, and one record was appended to the
\* rental store, for the chosen car, at its rate times the day count
NoneLeftAndOneRental ==
  LET chosen == last.pre.cars.data[CHOOSE i \in AvailableAt(last.pre.cars.data) : TRUE] IN
  /\ IsStore("Car", CarStore)
  /\ AvailableAt(CarStore.data) = {}
  /\ Len(RentalStore.data) = Len(last.pre.rentals.data) + 1
  /\ SubSeq(RentalStore.data, 1, Len(last.pre.rentals.data)) = last.pre.rentals.data
  /\ LET r == RentalStore.data[Len(RentalStore.data)] IN
       /\ r.selectedCar = chosen
       /\ r.totalCost = chosen.rental_rate * last.info.days

NoEarlierCarOfThatName ==
  \A i \in AvailableAt(last.pre.cars.data) : \A k \in 1..(i - 1) :
    last.pre.cars.data[k].model_name # last.pre.cars.data[i].model_name

Rentals == SelectSeq(RentalStore.data, LAMBDA r : r.kind = "Rental")

(* C12: every record of the rental store has a day count >= 0 between its   *)
(* pickup and return dates and totalCost = the embedded car's rental rate   *)
(* times that day count; no stored totalCost is negative.                   *)
C12_TotalCostIsRateTimesDays ==
  \A i \in 1..Len(Rentals) :
    LET r == Rentals[i]
        days == calculateRentalDays(r.pickupDate, r.returnDate)
    IN  /\ days >= 0
        /\ r.totalCost = r.selectedCar.rental_rate * days
        /\ r.totalCost >= 0

\* some record of the rental store is for a car of that model name
HasRental(model_name) ==
  \E i \in 1..Len(Rentals) : Rentals[i].selectedCar.model_name = model_name

(* C13: after any add-car, update-car, remove-car or rent-a-car operation,  *)
(* a car record is flagged unavailable exactly when the rental store has a  *)
(* record for that car.                                                     *)
C13_UnavailableIffRented ==
  ( /\ last.op \in {"addCar", "updateCar", "removeCar", "rentCar"}
    /\ last.outcome # "flipped"
    /\ IsStore("Car", CarStore) )
  => \A i \in 1..Len(CarStore.data) :
       ~CarStore.data[i].available_status <=> HasRental(CarStore.data[i].model_name)

(* C14: no two records of the rental store carry the same rental ID.        *)
C14_RentalIDsUnique ==
  \A i, j \in 1..Len(Rentals) : i # j => Rentals[i].rentalID # Rentals[j].rentalID

\* old is a prefix of new
IsPrefix(old, new) == Len(old) <= Len(new) /\ SubSeq(new, 1, Len(old)) = old

(* C15: the rental store is an append-only log: whatever a step does, the   *)
(* rental file is still there after it and the records it held before the   *)
(* step are a prefix of the records it holds after.                         *)
C15_RentalStoreAppendOnly ==
  [][ /\ fs[rental_records].exists => fs'[rental_records].exists
      /\ IsPrefix(fs[rental_records].data, fs'[rental_records].data) ]_vars

\* a car was removed, or the car store lost, with a rental on record
C15_Witness ==
  /\ last.op \in {"removeCar", "removeUser"}
  /\ last.outcome \in {"removed", "renamefail"}
  /\ Len(last.pre.rentals.data) > 0
  /\ RentalStore = last.pre.rentals

\* a store never written, or one of whole records of its kind
Fresh(kind, file) == ~file.exists \/ IsStore(kind, file)

(* C16: after a successful append (addCar, registerNewUsers, the rental     *)
(* append) to a store that holds only appended records, a scan from the     *)
(* start yields the records the store held, in order, then the record       *)
(* appended, field for field, so one record more than before.               *)
C16_AppendThenScan ==
  /\ ( last.op = "addCar" /\ last.outcome = "added" /\ Fresh("Car", last.pre.cars) )
       => Scans("Car", CarStore.data) = {last.pre.cars.data \o <<last.info.car>>}
  /\ ( last.op = "register" /\ last.outcome = "registered"
         /\ Fresh("User", last.pre.users) )
       => Scans("User", UserStore.data) = {last.pre.users.data \o <<last.info.user>>}
  /\ ( last.op = "rentCar" /\ last.outcome \in {"confirmed", "declined"} )
       => Scans("Rental", RentalStore.data) = {last.pre.rentals.data \o <<last.info.rental>>}

\* a second record was appended to a store
C16_Witness ==
  \/ last.op = "addCar" /\ IsStore("Car", last.pre.cars) /\ Len(last.pre.cars.data) = 1
       /\ Len(CarStore.data) = 2
  \/ last.op = "rentCar" /\ last.outcome = "confirmed"
       /\ Len(last.pre.rentals.data) = 1 /\ Len(RentalStore.data) = 2

\* the record u has the identifier and the password typed at the last login
Authenticates(u) ==
  /\ last.key \in {u.username, u.number, u.email}
  /\ last.info.password = u.password

(* C17: a user login succeeds exactly when some stored record has the       *)
(* identifier typed as its username, number or email and the password typed *)
(* as its password; the session user is then the first such record, and the *)
(* user dashboard is entered only then.                                     *)
C17_LoginIffSomeRecordMatches ==
  last.op = "userLogin" =>
    LET users == last.pre.users.data
        hits == {i \in 1..Len(users) : Authenticates(users[i])}
    IN  /\ (pc = "user") <=> (last.outcome = "found")
        /\ Fresh("User", last.pre.users)
             => /\ (last.outcome = "found") <=> (hits # {})
                /\ hits # {} => /\ loggedInUser = users[CHOOSE i \in hits : \A j \in hits : i <= j]
                                /\ Authenticates(loggedInUser)
                /\ hits = {} => loggedInUser = NoUser

\* a login by phone number that skipped the first record
C17_Witness ==
  /\ last.op = "userLogin" /\ last.outcome = "found"
  /\ IsStore("User", last.pre.users) /\ Len(last.pre.users.data) = 2
  /\ loggedInUser = last.pre.users.data[2]
  /\ last.key = loggedInUser.number
  /\ ~Authenticates(last.pre.users.data[1])

\* where the process has ended or can do no more, by its own doing
Terminal == {"exited", "crashed", "hung"}

(* C18: the user dashboard is entered only by a successful user login, the  *)
(* admin dashboard only when both credentials typed equal the constants, a  *)
(* dashboard is left only for the main menu, and the process ends only by   *)
(* the exit chosen at the main menu.                                        *)
C18_SessionStateMachine ==
  [][ /\ ( pc = "main" /\ pc' = "user" )
           => ( last'.op = "userLogin" /\ last'.outcome = "found" )
      /\ ( pc' = "user" /\ pc # "user" ) => pc \in {"main", "rentCar_append"}
      /\ ( pc' = "admin" /\ pc \notin {"manageCars", "manageUsers"} )
           => ( /\ pc = "main" /\ last'.op = "adminLogin"
                /\ last'.key = admin_user /\ last'.info.password = admin_password )
      /\ ( pc \in {"user", "rentCar_append"}
            /\ pc' \notin {"user", "rentCar_append", "killed"} ) => pc' = "main"
      /\ ( pc \in {"admin", "manageCars", "manageUsers"}
            /\ pc' \notin {"admin", "manageCars", "manageUsers"} ) => pc' = "main"
      /\ pc' \in Terminal => ( pc' = "exited" /\ pc = "main" ) ]_vars

\* the car record the availability loop of the last rentCar wrote, as it is now
FlipDone ==
  /\ CarStore.exists /\ last.info.flipped \in 1..Len(CarStore.data)
  /\ ~CarStore.data[last.info.flipped].available_status

(* C19: in a rentCar the availability is written before the Rental record   *)
(* is appended and is not taken back: between the two writes, and when the  *)
(* process ends there, the car is unavailable and the rental store is as it *)
(* was; once the record is appended the car is unavailable; the record is   *)
(* never in the store with the availability still to be written.            *)
C19_FlipBeforeAppend ==
  ( last.op = "rentCar" /\ IsStore("Car", last.pre.cars) )
  => /\ last.outcome = "flipped" => ( FlipDone /\ RentalStore = last.pre.rentals )
     /\ last.outcome \in {"confirmed", "declined"}
          => ( FlipDone /\ RentalStore.data # last.pre.rentals.data )
     /\ RentalStore.data # last.pre.rentals.data => FlipDone

\* the process ended between the two writes: a car that was available is
\* unavailable and the rental store has no record of it
C19_Witness ==
  /\ pc = "killed" /\ last.op = "rentCar" /\ last.outcome = "flipped"
  /\ IsStore("Car", last.pre.cars)
  /\ last.pre.cars.data[last.info.flipped].available_status
  /\ FlipDone
  /\ RentalStore = last.pre.rentals

\* the position of the n-th available record of data
NthAvailable(data, n) ==
  CHOOSE i \in AvailableAt(data) : Cardinality({j \in AvailableAt(data) : j <= i}) = n

(* C20: the availability loop of rentCar sets available_status to false on  *)
(* the first record of the car store whose model name is the chosen car's,  *)
(* and leaves every other record and the number of records as they were.    *)
C20_FlipFirstOfThatName ==
  ( last.op = "rentCar" /\ last.outcome \in {"flipped", "confirmed", "declined"}
    /\ IsStore("Car", last.pre.cars) )
  => LET old == last.pre.cars.data
         name == old[NthAvailable(old, last.key)].model_name
         named == {i \in 1..Len(old) : old[i].model_name = name}
         first == CHOOSE i \in named : \A j \in named : i <= j
     IN  CarStore = File([old EXCEPT ![first].available_status = FALSE])

\* the record selected was not the first of its name: another one was written
C20_Witness ==
  /\ last.op = "rentCar" /\ last.outcome \in {"flipped", "confirmed", "declined"}
  /\ IsStore("Car", last.pre.cars)
  /\ last.info.flipped # NthAvailable(last.pre.cars.data, last.key)
  /\ Len(CarStore.data) = 2

----------------------------------------------------------------------------
(* The day count *)

IsLeap(y) == (y % 4 = 0 /\ y % 100 # 0) \/ y % 400 = 0

DaysInMonth(y, m) ==
  IF m = 2 THEN (IF IsLeap(y) THEN 29 ELSE 28)
  ELSE IF m \in {4, 6, 9, 11} THEN 30 ELSE 31

\* a text of the form YYYY-MM-DD that names a day of the calendar
RealDate(t) ==
  t.numeric /\ t.month \in 1..12 /\ t.day \in 1..DaysInMonth(t.year, t.month)

\* the days of the calendar before the date t, counted from 1 January 2000
RECURSIVE DaysBeforeMonth(_, _)
DaysBeforeMonth(y, m) ==
  IF m = 1 THEN 0 ELSE DaysBeforeMonth(y, m - 1) + DaysInMonth(y, m - 1)

DayNumber(t) ==
  365 * (t.year - 2000) + Cardinality({k \in 2000..(t.year - 1) : IsLeap(k)})
    + DaysBeforeMonth(t.year, t.month) + t.day - 1

DaysReturned == pc = "rentCar_days"

(* C21: for two calendar dates in YYYY-MM-DD form calculateRentalDays       *)
(* returns the whole days from pickup to return when return is on or after  *)
(* pickup (0 for the same day) and its error value -1 when return is before *)
(* pickup.                                                                  *)
C21_DaysBetweenCalendarDates ==
  ( DaysReturned /\ RealDate(last.info.pickupDate) /\ RealDate(last.info.returnDate) )
  => LET from == DayNumber(last.info.pickupDate)
         to == DayNumber(last.info.returnDate)
     IN  last.info.days = IF to >= from THEN to - from ELSE -1

\* 2024-01-01 to 2024-01-05 gave 4
C21_Witness ==
  /\ DaysReturned
  /\ last.info.pickupDate.text = Date_2024_01_01
  /\ last.info.returnDate.text = Date_2024_01_05
  /\ last.info.days = 4

(* C22: calculateRentalDays returns its error value whenever one of the two *)
(* texts is not a calendar date in exact YYYY-MM-DD form: wrong length, a   *)
(* hyphen missing, a component that is not a number, a month or a day the   *)
(* calendar does not have.                                                  *)
C22_NotADateIsAnError ==
  ( DaysReturned /\ ~(RealDate(last.info.pickupDate) /\ RealDate(last.info.returnDate)) )
  => last.info.days = -1

----------------------------------------------------------------------------
(* The sequence counter *)

\* a registration has just run to its end
RegistrationEnded(outcome) ==
  ops' = ops + 1 /\ last'.op = "register" /\ last'.outcome = outcome

(* C23: the persisted counter counts the registered users: a registration   *)
(* that appends a User record raises the value load returns by exactly 1, a *)
(* registration whose append fails leaves it as it was, and no step of any  *)
(* operation lowers it.                                                     *)
C23_CounterCountsRegistrations ==
  [][ /\ loadHighestRecordedNumber(fs') >= loadHighestRecordedNumber(fs)
      /\ RegistrationEnded("registered")
           => loadHighestRecordedNumber(fs') = loadHighestRecordedNumber(fs) + 1
      /\ RegistrationEnded("writefail")
           => loadHighestRecordedNumber(fs') = loadHighestRecordedNumber(fs) ]_vars

(* C26: the slot of its array that registerNewUsers takes from the counter  *)
(* is within the array, 0 <= slot < MAX_USERS, whenever a registration      *)
(* writes the new user's data into it.                                      *)
C26_SlotWithinTheArray ==
  last.op = "register" => last.info.slot \in 0..(MAX_USERS - 1)

----------------------------------------------------------------------------
(* Files that cannot be opened *)

\* the last operation met an fopen, after its first one, that failed
OpenFailed ==
  \/ last.op = "rentCar" /\ last.outcome \in {"reopenfail", "appendopenfail"}
  \/ last.op = "register" /\ last.outcome = "readopenfail"

(* C24: when the second open of the car store or the open of the rental     *)
(* store in rentCar, or an open of the user store in enterUserData, fails,  *)
(* the operation is given up with nothing read or written through the       *)
(* handle and the process goes on at the menu the operation was called      *)
(* from.                                                                    *)
C24_OpenFailureAborts ==
  OpenFailed => pc \in {"main", "manageUsers", "user"}

----------------------------------------------------------------------------
(* The end of rentCar, the availability field, the session's username *)

(* C25: every rentCar that reaches its end gives control back to the user   *)
(* dashboard, whether the answer at the confirmation prompt was yes or      *)
(* anything else.                                                           *)
C25_RentCarReturns ==
  Rented => pc = "user"

\* updateCar has just written field 8, Available Status, of a car record
StatusEntered ==
  /\ last.op = "updateCar" /\ last.outcome = "updated" /\ last.info.choice = 8
  /\ IsStore("Car", last.pre.cars)

(* C27: the admin update of Available Status stores the value entered: the  *)
(* matched record has available_status true after 1 was entered and false   *)
(* after 0 was entered, whatever it had before.                             *)
C27_StatusEnteredIsStored ==
  StatusEntered
  => CarStore.data[last.info.at].available_status = (last.info.value = 1)

(* C28: within a user session, after an account-settings update the        *)
(* username the session goes on with (the key of further updates, the       *)
(* filter of the rental history, the name stamped on new rentals) is the    *)
(* username of that user's record in the user store.                        *)
C28_SessionUsernameIsTheStored ==
  ( pc = "user" /\ last.op = "updateUser" /\ last.outcome = "updated"
    /\ IsStore("User", last.pre.users) )
  => UserStore.data[last.info.at].username = loggedInUser.username
====
